---- MODULE Spec2Model ----
(***************************************************************************)
(* A model of package top of prom-top: Top/top select the query templates, *)
(* compose one PromQL query per (target metric, template), issue them one  *)
(* after the other against the Prometheus query interface at one fixed     *)
(* evaluation time, and fold the samples of every returned vector into a   *)
(* table of PodMetric records keyed by an FNV-1a fingerprint.              *)
(*                                                                         *)
(* Strings that are only compared are TLA+ strings.  Templates and query   *)
(* strings are sequences of text fragments, so that template execution is  *)
(* a substitution and strings.Contains is a search for a fragment.  The    *)
(* strings that are hashed are turned into their bytes by Bytes.           *)
(* A uint32 is a pair <<high 16 bits, low 16 bits>>.                       *)
(***************************************************************************)
EXTENDS Integers, Sequences, FiniteSets, TLC

(***************************************************************************)
(* Bounds of the model.                                                    *)
(***************************************************************************)
\* the number of series the backend holds in a run of the general model
MaxSeries == 2
\* the readings of the wall clock run from 0 to MaxClock
MaxClock == 1

(***************************************************************************)
(* Strings and bytes.                                                      *)
(***************************************************************************)
cpuMetric == "container_cpu_usage_seconds_total"
memoryMetric == "container_memory_usage_bytes"

\* []byte(s) for the strings that reach the hasher
Bytes(s) ==
  CASE s = "container_cpu_usage_seconds_total" ->
         <<99, 111, 110, 116, 97, 105, 110, 101, 114, 95, 99, 112, 117, 95,
           117, 115, 97, 103, 101, 95, 115, 101, 99, 111, 110, 100, 115, 95,
           116, 111, 116, 97, 108>>
    [] s = "container_memory_usage_bytes" ->
         <<99, 111, 110, 116, 97, 105, 110, 101, 114, 95, 109, 101, 109, 111,
           114, 121, 95, 117, 115, 97, 103, 101, 95, 98, 121, 116, 101, 115>>
    [] s = "a" -> <<97>>
    [] s = "a-b" -> <<97, 45, 98>>
    [] s = "c" -> <<99>>
    [] s = "b-c" -> <<98, 45, 99>>
    [] s = "fuzx" -> <<102, 117, 122, 120>>
    [] s = "42ad" -> <<52, 50, 97, 100>>
    [] s = "default" -> <<100, 101, 102, 97, 117, 108, 116>>
    [] s = "" -> <<>>

\* the byte of the '-' that the fingerprint format puts between its parts
dashByte == 45

(***************************************************************************)
(* hash/fnv New32a: 32-bit FNV-1a.                                         *)
(***************************************************************************)
Half == 65536
Byte == 256

\* offset basis 2166136261 = 0x811C9DC5
offset32 == <<33052, 40389>>
\* prime 16777619 = 2^24 + 403
prime32Low == 403

RECURSIVE XorBits(_, _, _)
XorBits(a, b, n) ==
  IF n = 0 THEN 0
  ELSE (((a % 2) + (b % 2)) % 2) + 2 * XorBits(a \div 2, b \div 2, n - 1)

\* a ^ b for two bytes
xorByte == [a \in 0..(Byte - 1) |-> [b \in 0..(Byte - 1) |-> XorBits(a, b, 8)]]

\* one step of FNV-1a: h ^= b; h *= prime32 (mod 2^32)
fnvStep(h, b) ==
  LET lo == ((h[2] \div Byte) * Byte) + xorByte[h[2] % Byte][b]
      pl == lo * prime32Low
  IN  << ((h[1] * prime32Low) + (pl \div Half) + ((lo % Byte) * Byte)) % Half,
         pl % Half >>

\* the hasher state after the first n bytes of bs have been written to h
RECURSIVE hashWriteN(_, _, _)
hashWriteN(h, bs, n) ==
  IF n = 0 THEN h
  ELSE CHOOSE r \in {fnvStep(prev, bs[n]) : prev \in {hashWriteN(h, bs, n - 1)}} :
         TRUE

\* the byte strings the model fingerprints, and their hashes from a fresh
\* hasher, computed once
fingerprintInputs ==
  { Bytes(ns) \o <<dashByte>> \o Bytes(pod) \o <<dashByte>> \o Bytes(tm) :
      ns \in {"", "a", "a-b"}, pod \in {"", "c", "b-c", "fuzx", "42ad"},
      tm \in {cpuMetric, memoryMetric} }

fnvTable == [bs \in fingerprintInputs |-> hashWriteN(offset32, bs, Len(bs))]

\* hash.Write(bs) on a hasher in state h
hashWrite(h, bs) ==
  IF h = offset32 /\ bs \in fingerprintInputs
  THEN fnvTable[bs]
  ELSE hashWriteN(h, bs, Len(bs))

hashSum32(h) == h

\* a Reset that clears the state to zero instead of the offset basis
hashResetToZero == <<0, 0>>

hashReset == offset32

\* fmt.Sprintf("%s-%s-%s", ns, pod, tm) as bytes
fingerprintInput(ns, pod, tm) ==
  Bytes(ns) \o <<dashByte>> \o Bytes(pod) \o <<dashByte>> \o Bytes(tm)

(***************************************************************************)
(* Query templates.                                                        *)
(***************************************************************************)
quantileOverTimeTemplate ==
  <<"quantile_over_time", "(.95, ", "{{.Metric}}", "[", "{{.Range}}", "])">>
avgOverTimeTemplate ==
  <<"avg_over_time", "(", "{{.Metric}}", "[", "{{.Range}}", "])">>
maxOverTimeTemplate ==
  <<"max_over_time", "(", "{{.Metric}}", "[", "{{.Range}}", "])">>
minOverTimeTemplate ==
  <<"min_over_time", "(", "{{.Metric}}", "[", "{{.Range}}", "])">>
instantTemplate == <<"{{.Metric}}">>

appLabelHead ==
  "sum by (pod, label_app) (kube_pod_labels{pod!=\"\"}) * on (pod) group_right(label_app) sum by (pod, namespace, node) ("
appLabelQuery == <<appLabelHead, "{{.Query}}", ")">>

\* selectQueryTemplates with instant in place of maximum and minimum in the
\* default set
selectQueryTemplatesInstantDefault(q) ==
  [t |-> CASE q = "q" -> <<quantileOverTimeTemplate>>
           [] q = "a" -> <<avgOverTimeTemplate>>
           [] q = "i" -> <<instantTemplate>>
           [] OTHER -> <<quantileOverTimeTemplate, avgOverTimeTemplate,
                         instantTemplate>>,
   err |-> ""]

\* the templates and the error that selectQueryTemplates returns
selectQueryTemplates(q) ==
  [t |-> CASE q = "q" -> <<quantileOverTimeTemplate>>
           [] q = "a" -> <<avgOverTimeTemplate>>
           [] q = "i" -> <<instantTemplate>>
           [] OTHER -> <<quantileOverTimeTemplate, avgOverTimeTemplate,
                         maxOverTimeTemplate, minOverTimeTemplate>>,
   err |-> ""]

\* text/template Execute: every action {{.F}} is replaced by the field F of
\* the data, every other fragment is copied
RECURSIVE templateExecute(_, _)
templateExecute(tmpl, data) ==
  IF tmpl = <<>> THEN <<>>
  ELSE (IF Head(tmpl) \in DOMAIN data THEN data[Head(tmpl)] ELSE <<Head(tmpl)>>)
       \o templateExecute(Tail(tmpl), data)

\* strings.Contains(s, word) for a word that is one fragment
stringsContains(s, word) == \E i \in 1..Len(s) : s[i] = word

targetMetrics == <<cpuMetric, memoryMetric>>

defaultRange == "10m"


(***************************************************************************)
(* The Prometheus backend behind cfg.PrometheusClient.                     *)
(***************************************************************************)
\* label sets of the series a backend can hold: two namespace/pod pairs that
\* differ only in where the '-' falls, one pod reported from two nodes, two
\* pods whose FNV-1a fingerprints coincide, and label sets that lack the
\* namespace, the pod or the label_app label
SeriesUniverse ==
  { [namespace |-> "a-b", pod |-> "c", label_app |-> "x", node |-> "n1"],
    [namespace |-> "a", pod |-> "b-c", label_app |-> "y", node |-> "n1"],
    [namespace |-> "a-b", pod |-> "c", label_app |-> "y", node |-> "n2"],
    [pod |-> "fuzx", node |-> "n1"],
    [pod |-> "42ad", label_app |-> "y", node |-> "n1"],
    [namespace |-> "a", label_app |-> "x", node |-> "n1"] }

MetricNames == {targetMetrics[i] : i \in 1..Len(targetMetrics)}

BackendSeries == [metric : MetricNames, labels : SeriesUniverse]

SeqsUpTo(S, n) == UNION {[1..k -> S] : k \in 0..n}

\* a lookup that puts a sample without namespace into namespace "default"
labelValueDefaultNamespace(m, name) ==
  IF name \in DOMAIN m THEN m[name]
  ELSE IF name = "namespace" THEN "default" ELSE ""

\* model.Metric lookup: the zero LabelValue when the label is absent
labelValue(m, name) == IF name \in DOMAIN m THEN m[name] ELSE ""

\* the scalar the backend reports for series j under the aggregation of query
backendValue(query, j) ==
  j + (CASE stringsContains(query, "quantile_over_time") -> 10
         [] stringsContains(query, "avg_over_time") -> 20
         [] stringsContains(query, "max_over_time") -> 30
         [] stringsContains(query, "min_over_time") -> 40
         [] OTHER -> 50)

\* the instant vector of a query: one sample per series of the queried metric
RECURSIVE backendVector(_, _, _)
backendVector(b, j, query) ==
  IF j > Len(b) THEN <<>>
  ELSE (IF stringsContains(query, b[j].metric)
        THEN <<[Metric |-> b[j].labels, Value |-> backendValue(query, j)]>>
        ELSE <<>>)
       \o backendVector(b, j + 1, query)

QueryTypes == {"q", "a", "i", "", "x"}
Ranges == {"", "5m"}

(***************************************************************************)
(* State.                                                                  *)
(***************************************************************************)
VARIABLES
  cfg,            \* Config: QueryType and Range
  backend,        \* the series behind the query interface
  clock,          \* the last reading of the wall clock
  pc,             \* "idle", "loop", "inflight", "fold", "done"
  now,            \* top's now
  queryTemplates, \* top's queryTemplates
  mi,             \* index of tm in targetMetrics
  ti,             \* index of qt in queryTemplates
  pending,        \* the Query calls that have not returned
  queryLog,       \* every Query call made: query string and timestamp
  outcomes,       \* what every returned Query call returned
  vector,         \* the vector being folded
  si,             \* index of sample in vector
  hash,           \* state of the shared hasher
  podMetricHashTable,
  folded,         \* the samples folded so far, with the id they were stored under
  result,         \* the PodMetricTable returned by Top
  err,            \* the error returned by Top, "" for nil
  first           \* the number of the call of Top under way, 1 or 2, and
                  \* what the first call returned, with its now

vars == <<cfg, backend, clock, pc, now, queryTemplates, mi, ti, pending,
          queryLog, outcomes, vector, si, hash, podMetricHashTable, folded,
          result, err, first>>

\* new(PodMetric)
newPodMetric ==
  [Metric |-> "", Range |-> "", Pod |-> "", Namespace |-> "", LabelApp |-> "",
   Q95Value |-> 0, MaxValue |-> 0, MinValue |-> 0, AvgValue |-> 0,
   InstValue |-> 0, QueryTime |-> <<>>]

\* now.Format(dbhandler.TimestampFormat)
formatTimestamp(t) == <<"TimestampFormat", t>>

noResult == [nil |-> TRUE, rows |-> {}]

\* the value of first until Top is called again
noFirst == [run |-> 1, result |-> noResult, err |-> "", now |-> 0]

InitRun ==
  /\ clock = 0
  /\ pc = "idle"
  /\ now = 0
  /\ queryTemplates = <<>>
  /\ mi = 1
  /\ ti = 1
  /\ pending = <<>>
  /\ queryLog = <<>>
  /\ outcomes = <<>>
  /\ vector = <<>>
  /\ si = 1
  /\ hash = offset32
  /\ podMetricHashTable = <<>>
  /\ folded = <<>>
  /\ result = noResult
  /\ err = ""
  /\ first = noFirst

Init ==
  /\ cfg \in [QueryType : QueryTypes, Range : Ranges]
  /\ backend \in SeqsUpTo(BackendSeries, MaxSeries)
  /\ InitRun

(***************************************************************************)
(* Top and top.                                                            *)
(***************************************************************************)
\* time.Now(): the wall clock never reads less than it did before
timeNow == clock..MaxClock

\* Top defaults the range and calls top, which reads the clock, selects the
\* templates and creates the table and the hasher
Top ==
  /\ pc = "idle"
  /\ cfg' = [cfg EXCEPT !.Range = IF cfg.Range = "" THEN defaultRange ELSE @]
  /\ \E t \in timeNow : now' = t /\ clock' = t
  /\ LET sel == selectQueryTemplates(cfg.QueryType)
     IN  /\ queryTemplates' = sel.t
         /\ IF sel.err # ""
            THEN /\ result' = noResult
                 /\ err' = "failed to parse query type"
                 /\ pc' = "done"
            ELSE /\ pc' = "loop"
                 /\ UNCHANGED <<result, err>>
  /\ podMetricHashTable' = <<>>
  /\ hash' = offset32
  /\ mi' = 1
  /\ ti' = 1
  /\ UNCHANGED <<first, backend, pending, queryLog, outcomes, vector, si, folded>>

\* composeQuery without the wrapping by appLabelQuery
composeQueryUnwrapped(tm, qt, range) ==
  templateExecute(qt, ("{{.Metric}}" :> <<tm>>) @@ ("{{.Range}}" :> <<range>>))

\* the query of the loop body: the template executed with the metric and the
\* range, wrapped by appLabelQuery
composeQuery(tm, qt, range) ==
  LET queryBuf == templateExecute(qt,
                    ("{{.Metric}}" :> <<tm>>) @@ ("{{.Range}}" :> <<range>>))
  IN  templateExecute(appLabelQuery, "{{.Query}}" :> queryBuf)

\* IssueQuery with a fresh reading of the clock as the timestamp of the call
IssueQueryReadsClock ==
  /\ pc = "loop"
  /\ mi <= Len(targetMetrics)
  /\ ti <= Len(queryTemplates)
  /\ \E t \in timeNow :
       LET call == [query |-> composeQuery(targetMetrics[mi],
                                           queryTemplates[ti], cfg.Range),
                    ts |-> t]
       IN  /\ pending' = Append(pending, call)
           /\ queryLog' = Append(queryLog, call)
           /\ clock' = t
  /\ pc' = "inflight"
  /\ UNCHANGED <<first, cfg, backend, now, queryTemplates, mi, ti, outcomes, vector,
                 si, hash, podMetricHashTable, folded, result, err>>

\* the loop body up to the call of cfg.PrometheusClient.Query
IssueQuery ==
  /\ pc = "loop"
  /\ mi <= Len(targetMetrics)
  /\ ti <= Len(queryTemplates)
  /\ LET call == [query |-> composeQuery(targetMetrics[mi], queryTemplates[ti],
                                         cfg.Range),
                  ts |-> now]
     IN  /\ pending' = Append(pending, call)
         /\ queryLog' = Append(queryLog, call)
  /\ pc' = "inflight"
  /\ UNCHANGED <<first, cfg, backend, clock, now, queryTemplates, mi, ti, outcomes,
                 vector, si, hash, podMetricHashTable, folded, result, err>>

\* QueryFails with the failed query skipped instead of the run aborted
QueryFailsSkipsQuery ==
  /\ pc = "inflight"
  /\ pending' = <<>>
  /\ outcomes' = Append(outcomes, "error")
  /\ err' = "query failed"
  /\ vector' = <<>>
  /\ si' = 1
  /\ pc' = "fold"
  /\ UNCHANGED <<first, cfg, backend, clock, now, queryTemplates, mi, ti, queryLog,
                 hash, podMetricHashTable, folded, result>>

\* Query returns an error: the backend failed or the context was cancelled
QueryFails ==
  /\ pc = "inflight"
  /\ pending' = <<>>
  /\ outcomes' = Append(outcomes, "error")
  /\ result' = noResult
  /\ err' = "query failed"
  /\ pc' = "done"
  /\ UNCHANGED <<first, cfg, backend, clock, now, queryTemplates, mi, ti, queryLog,
                 vector, si, hash, podMetricHashTable, folded>>

\* QueryReturnsNonVector with the records built so far returned with the error
QueryReturnsNonVectorPartial ==
  /\ pc = "inflight"
  /\ pending' = <<>>
  /\ outcomes' = Append(outcomes, "value")
  /\ result' = [nil |-> FALSE,
                rows |-> {podMetricHashTable[id] : id \in DOMAIN podMetricHashTable}]
  /\ err' = "expected vector"
  /\ pc' = "done"
  /\ UNCHANGED <<first, cfg, backend, clock, now, queryTemplates, mi, ti, queryLog,
                 vector, si, hash, podMetricHashTable, folded>>

\* Query returns a value that is not a model.Vector
QueryReturnsNonVector ==
  /\ pc = "inflight"
  /\ pending' = <<>>
  /\ outcomes' = Append(outcomes, "value")
  /\ result' = noResult
  /\ err' = "expected vector"
  /\ pc' = "done"
  /\ UNCHANGED <<first, cfg, backend, clock, now, queryTemplates, mi, ti, queryLog,
                 vector, si, hash, podMetricHashTable, folded>>

\* Query returns a model.Vector
QueryReturnsVector ==
  /\ pc = "inflight"
  /\ pending' = <<>>
  /\ outcomes' = Append(outcomes, "vector")
  /\ vector' = backendVector(backend, 1, pending[1].query)
  /\ si' = 1
  /\ pc' = "fold"
  /\ UNCHANGED <<first, cfg, backend, clock, now, queryTemplates, mi, ti, queryLog,
                 hash, podMetricHashTable, folded, result, err>>

\* valueField with the average written to the quantile field
valueFieldAvgIntoQuantile(qt) ==
  CASE stringsContains(qt, "quantile_over_time") -> "Q95Value"
    [] stringsContains(qt, "avg_over_time") -> "Q95Value"
    [] stringsContains(qt, "max_over_time") -> "MaxValue"
    [] stringsContains(qt, "min_over_time") -> "MinValue"
    [] Len(qt) > 0 -> "MinValue"
    [] OTHER -> "none"

\* the field of the record that the switch on qt writes
valueField(qt) ==
  CASE stringsContains(qt, "quantile_over_time") -> "Q95Value"
    [] stringsContains(qt, "avg_over_time") -> "AvgValue"
    [] stringsContains(qt, "max_over_time") -> "MaxValue"
    [] stringsContains(qt, "min_over_time") -> "MinValue"
    [] Len(qt) > 0 -> "MinValue"
    [] OTHER -> "none"

\* foldRecord that starts from a new record on every sample instead of the
\* record found in the table
foldRecordFromNew(old, ns, pod, tm, labelApp, range, t, qt, value) ==
  LET shared == [newPodMetric EXCEPT !.Namespace = ns, !.Pod = pod,
                                     !.Metric = tm, !.LabelApp = labelApp,
                                     !.Range = range,
                                     !.QueryTime = formatTimestamp(t)]
      f == valueField(qt)
  IN  IF f = "none" THEN shared ELSE [shared EXCEPT ![f] = value]

\* the record of id after one sample has been folded into it
foldRecord(old, ns, pod, tm, labelApp, range, t, qt, value) ==
  LET shared == [old EXCEPT !.Namespace = ns, !.Pod = pod, !.Metric = tm,
                            !.LabelApp = labelApp, !.Range = range,
                            !.QueryTime = formatTimestamp(t)]
      f == valueField(qt)
  IN  IF f = "none" THEN shared ELSE [shared EXCEPT ![f] = value]

\* one iteration of the loop over the samples of the vector
FoldSample ==
  /\ pc = "fold"
  /\ si <= Len(vector)
  /\ LET sample == vector[si]
         tm == targetMetrics[mi]
         qt == queryTemplates[ti]
         ns == labelValue(sample.Metric, "namespace")
         pod == labelValue(sample.Metric, "pod")
         written == hashWrite(hash, fingerprintInput(ns, pod, tm))
         id == hashSum32(written)
         old == IF id \in DOMAIN podMetricHashTable
                THEN podMetricHashTable[id] ELSE newPodMetric
         labelApp == labelValue(sample.Metric, "label_app")
         new == foldRecord(old, ns, pod, tm, labelApp, cfg.Range, now, qt,
                           sample.Value)
     IN  /\ hash' = hashReset
         /\ podMetricHashTable' =
              [i \in DOMAIN podMetricHashTable \cup {id} |->
                 IF i = id THEN new ELSE podMetricHashTable[i]]
         /\ folded' = Append(folded,
              [id |-> id, ns |-> ns, pod |-> pod, tm |-> tm, qt |-> qt,
               labelApp |-> labelApp, value |-> sample.Value,
               labels |-> sample.Metric])
  /\ si' = si + 1
  /\ UNCHANGED <<first, cfg, backend, clock, pc, now, queryTemplates, mi, ti, pending,
                 queryLog, outcomes, vector, result, err>>

\* NextQuery taken from inside the loop over the samples, as a break would
NextQueryLeavesSamples ==
  /\ pc = "fold"
  /\ IF ti < Len(queryTemplates)
     THEN ti' = ti + 1 /\ mi' = mi
     ELSE ti' = 1 /\ mi' = mi + 1
  /\ pc' = "loop"
  /\ UNCHANGED <<first, cfg, backend, clock, now, queryTemplates, pending, queryLog,
                 outcomes, vector, si, hash, podMetricHashTable, folded, result,
                 err>>

\* the loop over the samples is over: on to the next template or metric
NextQuery ==
  /\ pc = "fold"
  /\ si > Len(vector)
  /\ IF ti < Len(queryTemplates)
     THEN ti' = ti + 1 /\ mi' = mi
     ELSE ti' = 1 /\ mi' = mi + 1
  /\ pc' = "loop"
  /\ UNCHANGED <<first, cfg, backend, clock, now, queryTemplates, pending, queryLog,
                 outcomes, vector, si, hash, podMetricHashTable, folded, result,
                 err>>

\* both loops are over: the records of the table are returned
Finish ==
  /\ pc = "loop"
  /\ mi > Len(targetMetrics)
  /\ result' = [nil |-> FALSE,
                rows |-> {podMetricHashTable[id] : id \in DOMAIN podMetricHashTable}]
  /\ err' = ""
  /\ pc' = "done"
  /\ UNCHANGED <<first, cfg, backend, clock, now, queryTemplates, mi, ti, pending,
                 queryLog, outcomes, vector, si, hash, podMetricHashTable,
                 folded>>

Next ==
  \/ Top
  \/ IssueQuery
  \/ QueryFails
  \/ QueryReturnsNonVector
  \/ QueryReturnsVector
  \/ FoldSample
  \/ NextQuery
  \/ Finish

Spec == Init /\ [][Next]_vars

(***************************************************************************)
(* The scenario of two pods that report cpu and one pod that reports       *)
(* memory, under the default selector.                                     *)
(***************************************************************************)
samePod(l1, l2) ==
  /\ labelValue(l1, "namespace") = labelValue(l2, "namespace")
  /\ labelValue(l1, "pod") = labelValue(l2, "pod")

InitScenario ==
  /\ cfg \in [QueryType : {""}, Range : Ranges]
  /\ \E l1, l2, l3 \in SeriesUniverse :
       /\ ~samePod(l1, l2)
       /\ backend = << [metric |-> cpuMetric, labels |-> l1],
                       [metric |-> cpuMetric, labels |-> l2],
                       [metric |-> memoryMetric, labels |-> l3] >>
  /\ InitRun

SpecScenario == InitScenario /\ [][Next]_vars

(***************************************************************************)
(* Top called a second time with the same Config against the same backend. *)
(***************************************************************************)
\* the second call with podMetricHashTable kept from the first call, as a
\* table declared at package level would be
TopAgainKeepsTable ==
  /\ pc = "done"
  /\ first.run = 1
  /\ first' = [run |-> 2, result |-> result, err |-> err, now |-> now]
  /\ cfg' = [cfg EXCEPT !.Range = IF cfg.Range = "" THEN defaultRange ELSE @]
  /\ \E t \in timeNow : now' = t /\ clock' = t
  /\ queryTemplates' = selectQueryTemplates(cfg.QueryType).t
  /\ UNCHANGED podMetricHashTable
  /\ hash' = offset32
  /\ mi' = 1
  /\ ti' = 1
  /\ pc' = "loop"
  /\ queryLog' = <<>>
  /\ outcomes' = <<>>
  /\ folded' = <<>>
  /\ vector' = <<>>
  /\ si' = 1
  /\ result' = noResult
  /\ err' = ""
  /\ UNCHANGED <<backend, pending>>

\* the first call has returned and Top is called again: top reads the clock,
\* selects the templates and creates a new table and a new hasher; what the
\* first call returned is kept in first, and the record of the calls, outcomes
\* and folded samples starts again
TopAgain ==
  /\ pc = "done"
  /\ first.run = 1
  /\ first' = [run |-> 2, result |-> result, err |-> err, now |-> now]
  /\ cfg' = [cfg EXCEPT !.Range = IF cfg.Range = "" THEN defaultRange ELSE @]
  /\ \E t \in timeNow : now' = t /\ clock' = t
  /\ queryTemplates' = selectQueryTemplates(cfg.QueryType).t
  /\ podMetricHashTable' = <<>>
  /\ hash' = offset32
  /\ mi' = 1
  /\ ti' = 1
  /\ pc' = "loop"
  /\ queryLog' = <<>>
  /\ outcomes' = <<>>
  /\ folded' = <<>>
  /\ vector' = <<>>
  /\ si' = 1
  /\ result' = noResult
  /\ err' = ""
  /\ UNCHANGED <<backend, pending>>

RerunQueryTypes == {"i", "x"}

InitRerun ==
  /\ cfg \in [QueryType : RerunQueryTypes, Range : {""}]
  /\ backend \in SeqsUpTo(BackendSeries, MaxSeries)
  /\ InitRun

NextRerun == Next \/ TopAgain

SpecRerun == InitRerun /\ [][NextRerun]_vars

(***************************************************************************)
(* Notions the properties are stated with.                                 *)
(***************************************************************************)
Succeeded == pc = "done" /\ err = ""

Failed == pc = "done" /\ err # ""

\* the scalar field of a record that belongs to a template kind
kindField(qt) ==
  CASE qt = quantileOverTimeTemplate -> "Q95Value"
    [] qt = avgOverTimeTemplate -> "AvgValue"
    [] qt = maxOverTimeTemplate -> "MaxValue"
    [] qt = minOverTimeTemplate -> "MinValue"
    [] qt = instantTemplate -> "InstValue"

\* the identity of a folded sample and of a record
sampleTriple(f) == <<f.ns, f.pod, f.tm>>
recordTriple(r) == <<r.Namespace, r.Pod, r.Metric>>


(***************************************************************************)
(* C1: in a run with the instant selector every returned record has its    *)
(* InstValue set to the value of the instant sample of its identity, and   *)
(* its quantile-95, average, maximum and minimum fields are zero.          *)
(***************************************************************************)
C1_InstantSetsInstValue ==
  (Succeeded /\ cfg.QueryType = "i") =>
    \A r \in result.rows :
      /\ \E i \in DOMAIN folded :
           /\ sampleTriple(folded[i]) = recordTriple(r)
           /\ r.InstValue = folded[i].value
      /\ r.Q95Value = 0
      /\ r.AvgValue = 0
      /\ r.MaxValue = 0
      /\ r.MinValue = 0

(***************************************************************************)
(* C2: two samples folded in one run whose (namespace, pod, target metric) *)
(* triples differ are stored under different fingerprints, and the         *)
(* returned table has two distinct records, one per triple.                *)
(***************************************************************************)
C2_DistinctTriplesDistinctRecords ==
  Succeeded =>
    \A i, j \in DOMAIN folded :
      sampleTriple(folded[i]) # sampleTriple(folded[j]) =>
        /\ folded[i].id # folded[j].id
        /\ \E r1, r2 \in result.rows :
             /\ r1 # r2
             /\ recordTriple(r1) = sampleTriple(folded[i])
             /\ recordTriple(r2) = sampleTriple(folded[j])

(***************************************************************************)
(* C3, as claimed: two samples of one triple from queries of two different *)
(* template kinds end in exactly one returned record of that triple, whose *)
(* two corresponding scalar fields hold the values of these two samples.   *)
(***************************************************************************)
differentKinds(i, j) ==
  /\ sampleTriple(folded[i]) = sampleTriple(folded[j])
  /\ folded[i].qt # folded[j].qt

C3_TwoKindsHoldBothValues ==
  Succeeded =>
    \A i, j \in DOMAIN folded :
      differentKinds(i, j) =>
        LET rs == {r \in result.rows : recordTriple(r) = sampleTriple(folded[i])}
        IN  /\ Cardinality(rs) = 1
            /\ \A r \in rs :
                 /\ r[kindField(folded[i].qt)] = folded[i].value
                 /\ r[kindField(folded[j].qt)] = folded[j].value

\* the value of the last sample folded under id from a query of template qt
lastValue(id, qt) ==
  LET ks == {k \in DOMAIN folded : folded[k].id = id /\ folded[k].qt = qt}
      last == CHOOSE k \in ks : \A l \in ks : l <= k
  IN  folded[last].value

(***************************************************************************)
(* C3, amended: two samples of one triple from queries of two different    *)
(* template kinds are stored under one fingerprint, the record under that  *)
(* fingerprint is returned, and each of the two corresponding scalar       *)
(* fields holds the value of the last sample folded under that fingerprint *)
(* from a query of that kind.                                              *)
(***************************************************************************)
C3_TwoKindsHoldLastValues ==
  Succeeded =>
    \A i \in DOMAIN folded :
      LET id == folded[i].id
          js == {j \in DOMAIN folded : differentKinds(i, j)}
      IN  js # {} =>
            /\ \A j \in js : folded[j].id = id
            /\ id \in DOMAIN podMetricHashTable
            /\ podMetricHashTable[id] \in result.rows
            /\ podMetricHashTable[id][kindField(folded[i].qt)]
                 = lastValue(id, folded[i].qt)

\* a returned table in which a sample of one kind was overwritten by a later
\* sample of the same kind while another kind's sample shares its triple
C3_Witness ==
  /\ Succeeded
  /\ \E i, j, k \in DOMAIN folded :
       /\ differentKinds(i, j)
       /\ i < k
       /\ folded[k].id = folded[i].id
       /\ folded[k].qt = folded[i].qt
       /\ folded[k].value # folded[i].value

(***************************************************************************)
(* C4: when a query of the run returns a value that is not an instant      *)
(* vector, at whatever position, Top returns an error and a nil table:     *)
(* no record built from the earlier queries is returned.                   *)
(***************************************************************************)
C4_NonVectorFailsRun ==
  (\E i \in DOMAIN outcomes : outcomes[i] = "value") =>
    /\ pc = "done"
    /\ err # ""
    /\ result.nil
    /\ result.rows = {}

\* a non-vector value arrived after earlier queries had built records
C4_Witness ==
  /\ Len(outcomes) > 1
  /\ outcomes[Len(outcomes)] = "value"
  /\ DOMAIN podMetricHashTable # {}
  /\ pc = "done"

(***************************************************************************)
(* C5: when a query call returns an error the run aborts at that query:    *)
(* Top returns an error and a nil table, and the failing query is the last *)
(* one issued to the query interface.                                      *)
(***************************************************************************)
C5_QueryErrorAbortsRun ==
  \A i \in DOMAIN outcomes :
    outcomes[i] = "error" =>
      /\ pc = "done"
      /\ err # ""
      /\ result.nil
      /\ result.rows = {}
      /\ pending = <<>>
      /\ i = Len(queryLog)

\* a query failed before the last query of the run, after records were built
C5_Witness ==
  /\ Len(outcomes) > 1
  /\ outcomes[Len(outcomes)] = "error"
  /\ Len(queryLog) < Len(targetMetrics) * Len(queryTemplates)
  /\ DOMAIN podMetricHashTable # {}
  /\ pc = "done"

renderedTemplate(qt, tm, range) ==
  CASE qt = quantileOverTimeTemplate ->
         <<"quantile_over_time", "(.95, ", tm, "[", range, "])">>
    [] qt = avgOverTimeTemplate -> <<"avg_over_time", "(", tm, "[", range, "])">>
    [] qt = maxOverTimeTemplate -> <<"max_over_time", "(", tm, "[", range, "])">>
    [] qt = minOverTimeTemplate -> <<"min_over_time", "(", tm, "[", range, "])">>
    [] qt = instantTemplate -> <<tm>>

wrappedOnce(q) == <<appLabelHead>> \o q \o <<")">>

C7_OneQueryPerPair ==
  Succeeded =>
    /\ Len(queryLog) = Len(targetMetrics) * Len(queryTemplates)
    /\ \A m \in DOMAIN targetMetrics, k \in DOMAIN queryTemplates :
         Cardinality({i \in DOMAIN queryLog :
                        queryLog[i].query =
                          wrappedOnce(renderedTemplate(queryTemplates[k],
                                        targetMetrics[m], cfg.Range))}) = 1
    /\ \A i \in DOMAIN queryLog :
         Cardinality({n \in DOMAIN queryLog[i].query :
                        queryLog[i].query[n] = appLabelHead}) = 1

\* a completed run of the four default kinds over the two metrics
C7_Witness ==
  /\ Succeeded
  /\ Len(queryTemplates) = 4
  /\ Len(queryLog) = 8

(***************************************************************************)
(* C8: the evaluation timestamp is captured once before the first query,   *)
(* every query call of the run is passed that timestamp, and every record  *)
(* of the table carries that timestamp as its QueryTime.                   *)
(***************************************************************************)
C8_OneTimestamp ==
  /\ [](/\ \A i \in DOMAIN queryLog : queryLog[i].ts = now
        /\ \A id \in DOMAIN podMetricHashTable :
             podMetricHashTable[id].QueryTime = formatTimestamp(now)
        /\ Succeeded =>
             \A r \in result.rows : r.QueryTime = formatTimestamp(now))
  /\ [][pc # "idle" => now' = now]_vars

\* a completed run of several queries that returned records, at a time after
\* which the clock can still advance
C8_Witness ==
  /\ Succeeded
  /\ Len(queryLog) > 1
  /\ result.rows # {}
  /\ now < MaxClock

(***************************************************************************)
(* C9: with the default selector, two pods that report cpu samples and one *)
(* pod that reports memory samples for all four aggregation queries, the   *)
(* returned table has exactly 3 records, each with its quantile-95,        *)
(* average, maximum and minimum fields set from the matching query, and    *)
(* the instantaneous field zero.                                           *)
(***************************************************************************)
\* the values of the samples of a triple from queries of template qt
valuesOf(triple, qt) ==
  {folded[i].value : i \in {k \in DOMAIN folded :
      sampleTriple(folded[k]) = triple /\ folded[k].qt = qt}}

C9_ThreeRecords ==
  Succeeded =>
    /\ Cardinality(result.rows) = 3
    /\ \A r \in result.rows :
         /\ r.Q95Value \in valuesOf(recordTriple(r), quantileOverTimeTemplate)
         /\ r.AvgValue \in valuesOf(recordTriple(r), avgOverTimeTemplate)
         /\ r.MaxValue \in valuesOf(recordTriple(r), maxOverTimeTemplate)
         /\ r.MinValue \in valuesOf(recordTriple(r), minOverTimeTemplate)
         /\ r.InstValue = 0

(***************************************************************************)
(* C10: a sample that lacks the namespace, the pod or the label_app label  *)
(* never makes the run fail: the missing label is taken as the empty       *)
(* string, the sample is folded into the record of the resulting identity, *)
(* and the run goes on with the remaining samples and queries.             *)
(***************************************************************************)
labelOrEmpty(f, name) ==
  IF name \in DOMAIN f.labels THEN f.labels[name] ELSE ""

C10_MissingLabelsAreEmpty ==
  /\ err \in {"", "query failed", "expected vector"}
  /\ err # "" => outcomes[Len(outcomes)] \in {"error", "value"}
  /\ \A i \in DOMAIN folded : folded[i].id \in DOMAIN podMetricHashTable
  /\ folded # <<>> =>
       LET f == folded[Len(folded)]
           r == podMetricHashTable[f.id]
       IN  /\ f.ns = labelOrEmpty(f, "namespace")
           /\ f.pod = labelOrEmpty(f, "pod")
           /\ f.labelApp = labelOrEmpty(f, "label_app")
           /\ r.Namespace = labelOrEmpty(f, "namespace")
           /\ r.Pod = labelOrEmpty(f, "pod")
           /\ r.LabelApp = labelOrEmpty(f, "label_app")
           /\ r.Metric = f.tm
  /\ Succeeded => Len(folded) = Len(queryTemplates) * Len(backend)

\* a completed run in which samples without namespace, without pod and
\* without label_app were folded and followed by further samples, and a record
\* with an empty namespace is returned
C10_Witness ==
  /\ Succeeded
  /\ \E i, j, k \in DOMAIN folded :
       /\ "namespace" \notin DOMAIN folded[i].labels
       /\ "pod" \notin DOMAIN folded[j].labels
       /\ "label_app" \notin DOMAIN folded[k].labels
       /\ i < Len(folded)
       /\ j < Len(folded)
       /\ k < Len(folded)
  /\ \E r \in result.rows : r.Namespace = ""
  /\ \E r \in result.rows : r.Pod = ""

(***************************************************************************)
(* C11: a second run over the same query results with the same             *)
(* configuration and the same evaluation timestamp returns the same set of *)
(* records as the first, and no state of the first run reaches the second: *)
(* the table of the second run holds only records of samples folded in the *)
(* second run.                                                             *)
(***************************************************************************)
C11_RerunSameRecords ==
  first.run = 2 =>
    /\ DOMAIN podMetricHashTable = {folded[i].id : i \in DOMAIN folded}
    /\ (Succeeded /\ first.err = "" /\ first.now = now) => result = first.result

\* both runs completed at the same timestamp and returned several records
C11_Witness ==
  /\ first.run = 2
  /\ Succeeded
  /\ first.err = ""
  /\ first.now = now
  /\ Cardinality(result.rows) > 1
  /\ result = first.result

(***************************************************************************)
(* C12: the queries of a run are issued one at a time: at most one call is *)
(* in flight in every state, every call issued but the one in flight has   *)
(* its outcome, and where a query is about to be issued or is in flight,   *)
(* every sample of the vector returned before it has been folded, in the   *)
(* order of the vector.                                                    *)
(***************************************************************************)
vectorFolded ==
  /\ si > Len(vector)
  /\ Len(folded) >= Len(vector)
  /\ \A k \in 1..Len(vector) :
       LET f == folded[Len(folded) - Len(vector) + k]
       IN  f.labels = vector[k].Metric /\ f.value = vector[k].Value

C12_OneQueryAtATime ==
  /\ Len(pending) <= 1
  /\ Len(queryLog) = Len(outcomes) + Len(pending)
  /\ pending # <<>> => pc = "inflight"
  /\ pc \in {"loop", "inflight"} => vectorFolded

\* a later query is in flight after a vector of several samples was folded
C12_Witness ==
  /\ Len(queryLog) > 1
  /\ Len(pending) = 1
  /\ Len(vector) > 1
  /\ vectorFolded

(***************************************************************************)
(* C13: the shared hasher is in its initial state whenever a fingerprint   *)
(* is about to be computed, and the sample folded last has the fingerprint *)
(* of every sample of its (namespace, pod, target metric) triple folded    *)
(* before it, whatever was fingerprinted in between.                       *)
(***************************************************************************)
C13_FingerprintOfTripleOnly ==
  /\ pc \in {"loop", "inflight", "fold"} => hash = offset32
  /\ \A i \in DOMAIN folded :
       sampleTriple(folded[i]) = sampleTriple(folded[Len(folded)]) =>
         folded[i].id = folded[Len(folded)].id

\* a triple fingerprinted first and again after a sample of another triple
\* with another fingerprint
C13_Witness ==
  \E i, k, j \in DOMAIN folded :
    /\ i < k
    /\ k < j
    /\ sampleTriple(folded[i]) = sampleTriple(folded[j])
    /\ sampleTriple(folded[k]) # sampleTriple(folded[i])
    /\ folded[k].id # folded[i].id
    /\ folded[i].id = folded[j].id

(***************************************************************************)
(* C14: a step that folds one sample leaves every record under another     *)
(* fingerprint as it was, adds at most the record under the sample's       *)
(* fingerprint, and in that record sets one of the five scalar fields to   *)
(* the sample's value while the other four keep the values they had (zero  *)
(* in a record just created); no step of a run removes a record.           *)
(***************************************************************************)
scalarFields == {"Q95Value", "AvgValue", "MaxValue", "MinValue", "InstValue"}

foldStepFrame ==
  LET f == folded'[Len(folded')]
      before == IF f.id \in DOMAIN podMetricHashTable
                THEN podMetricHashTable[f.id] ELSE newPodMetric
      after == podMetricHashTable'[f.id]
  IN  /\ DOMAIN podMetricHashTable' = DOMAIN podMetricHashTable \cup {f.id}
      /\ \A i \in DOMAIN podMetricHashTable \ {f.id} :
           podMetricHashTable'[i] = podMetricHashTable[i]
      /\ \E w \in scalarFields :
           /\ after[w] = f.value
           /\ \A g \in scalarFields \ {w} : after[g] = before[g]

C14_FoldTouchesOneRecordOneField ==
  /\ [][Len(folded') = Len(folded) + 1 => foldStepFrame]_vars
  /\ [][DOMAIN podMetricHashTable \subseteq DOMAIN podMetricHashTable']_vars

\* a sample was folded into a record that already held another scalar field
\* while the table held a record under another fingerprint
C14_Witness ==
  /\ pc = "fold"
  /\ si > 1
  /\ Cardinality(DOMAIN podMetricHashTable) > 1
  /\ LET r == podMetricHashTable[folded[Len(folded)].id]
     IN  Cardinality({w \in scalarFields : r[w] # 0}) > 1

(***************************************************************************)
(* C15: when several samples folded from queries of one template kind have *)
(* one fingerprint, the record under that fingerprint holds the value of   *)
(* the last of them in the scalar field of that kind, it holds the         *)
(* label_app of the last of them as long as no sample of another kind has  *)
(* been folded under the fingerprint after it and again when the run       *)
(* returns, and the fold raises no error.                                  *)
(***************************************************************************)
C15_LastSampleWins ==
  \A k \in DOMAIN folded :
    LET id == folded[k].id
        qt == folded[k].qt
        ks == {l \in DOMAIN folded : folded[l].id = id /\ folded[l].qt = qt}
        last == CHOOSE l \in ks : \A m \in ks : m <= l
        latest == \A l \in DOMAIN folded : folded[l].id = id => l <= last
    IN  Cardinality(ks) > 1 =>
          /\ id \in DOMAIN podMetricHashTable
          /\ podMetricHashTable[id][kindField(qt)] = folded[last].value
          /\ latest => podMetricHashTable[id].LabelApp = folded[last].labelApp
          /\ Succeeded =>
               /\ podMetricHashTable[id] \in result.rows
               /\ podMetricHashTable[id].LabelApp = folded[last].labelApp
          /\ pc = "fold" => err = ""

====
